---- MODULE Spec2Model ----
(***************************************************************************)
(* Model of get-recursive-disk-size.cpp: a process-wide cache of directory *)
(* sizes keyed by path (cache), guarded by one mutex (cacheMutex), filled  *)
(* by getDiskSpaceUsage from the result of calculateDiskSpace and the      *)
(* directory's last-write time.  Threads call getDiskSpaceUsage while the  *)
(* filesystem is changed by its environment at any moment.                 *)
(***************************************************************************)
EXTENDS Integers, Sequences, FiniteSets, TLC

\* The program's state, the filesystem it reads, and each call's locals.
VARIABLES fs, cache, cacheMutex, pc, directory, lastModified, totalSpaceUsed,
          iter, out

\* History of the call in progress: the cache as it was when the call took
\* the lock, and the number of times the call entered calculateDiskSpace.
VARIABLES before, walks

\* What an observer of the filesystem and of the calls has recorded; watch
\* names the record it keeps, and it keeps none when watch is "off".
\*   snap[t]   the true total beneath the directory when the call read the
\*             directory's timestamp
\*   dirty[t]  the filesystem was modified after the call read the timestamp
\*             and before its outcome was fixed (watch "advance": or after)
\*   first[d]  the earliest successful call on d after the outcome of which
\*             the filesystem was not modified: its value, whether its dirty
\*             was false, and the thread still in it
\*   phase[d]  1: a call on d has succeeded and nothing was modified since;
\*             2: after that, files beneath d were added, removed or resized
\*             with d's timestamp moving forward, and nothing else happened
\*   nested[d] d has an entry, a file beneath d was changed with d's own
\*             timestamp staying the same, and no call on d has looked since
\*   saw[t]    nested of the call's directory when it read the timestamp
\*   group     the calls made on one directory since no call was in progress:
\*             the directory, the cache as it was when the first of them was
\*             made, the threads that have returned from one, and whether
\*             one was made while another was in progress; on as long as
\*             every one of them that read the timestamp read one that is
\*             not later than the entry's
\*   serial    the table got by running the calls that have ended one after
\*             another, in the order in which they took the lock, each on
\*             the table the one before it left
\*   round     the calls made on one directory, whose entry was missing or
\*             older than its timestamp, since no call was in progress, the
\*             filesystem not being modified meanwhile: the directory, how
\*             many of them have ended (2 stands for more), how many times
\*             they entered calculateDiskSpace (likewise), what the first
\*             to end returned and whether it succeeded, and whether one
\*             was made while another was in progress
\*   sampled[d] "read": a call on d has read d's timestamp and entered
\*             calculateDiskSpace, and since then its walk has not failed
\*             and d has not been removed nor its timestamp set back;
\*             "advanced": and d's timestamp has moved forward since
VARIABLES watch, snap, dirty, first, phase, nested, saw, group, serial, round,
          sampled

prog == <<fs, cache, cacheMutex, pc, directory, lastModified, totalSpaceUsed,
          iter, out>>

hist == <<watch, snap, dirty, first, phase, nested, saw, group, serial,
          round, sampled>>

vars == <<prog, before, walks, hist>>

----------------------------------------------------------------------------
(* Bounds of the model *)

\* Largest byte length of a regular file.
MaxSize == 1

\* Latest last-write time, in ticks after the file clock's epoch; the
\* earliest is one tick before the epoch.  The machine word, scaled down,
\* holds the signed counts -(MaxTick+1) .. MaxTick.
MaxTick == 1

Threads == {"t1", "t2"}

----------------------------------------------------------------------------
(* The filesystem the program reads *)

\* The tree: directory A holds the directory A/B, which holds the file
\* A/B/g.  A and A/B are the paths given to getDiskSpaceUsage.  A can also
\* hold A/f, A/h, A/k and A/s, which only the trees that nothing changes
\* (StillFs) have.
Entries == {"A", "A/B", "A/B/g", "A/f", "A/h", "A/k", "A/s"}

Dirs == {"A", "A/B"}

Files == {"A/B/g"}

Parent(e) == CASE e = "A/B" -> "A"
               [] e = "A/B/g" -> "A/B"
               [] OTHER -> "A"

\* A path that names nothing.
Nowhere == "A/x"

\* The order in which a directory stream yields the names of a directory.
ListOrder == <<"A/f", "A/h", "A/k", "A/s", "A/B", "A/B/g">>

\* Tick counts of fs::file_time_type (a signed count around the clock's epoch).
Ticks == (0 - 1) .. MaxTick

Absent == [kind |-> "none", size |-> 0, mtime |-> 0]

RegularFile(s) == [kind |-> "file", size |-> s, mtime |-> 0]

Directory(m) == [kind |-> "dir", size |-> 0, mtime |-> m]

\* A symbolic link to the path x.
Symlink(x) == [kind |-> "symlink", size |-> 0, mtime |-> 0, target |-> x]

\* A device, a socket or a pipe.
Other == [kind |-> "other", size |-> 0, mtime |-> 0]

Exists(f, e) == f[e].kind # "none"

\* The entries beneath d, at any depth.
Beneath(d) ==
    IF d = "A" THEN Entries \ {"A"} ELSE IF d = "A/B" THEN {"A/B/g"} ELSE {}

\* What stat gives for e: a symbolic link is followed to its target.
Status(f, e) ==
    IF f[e].kind = "symlink"
    THEN IF f[e].target \in Entries THEN f[f[e].target] ELSE Absent
    ELSE f[e]

\* entry.is_regular_file(), which is is_regular_file(entry.status()).
IsRegularFile(f, e) == Status(f, e).kind = "file"

\* fs::file_size(entry.path()).
FileSize(f, e) == Status(f, e).size

\* The names a directory holds, in the order its stream yields them.
Children(f, d) ==
    SelectSeq(ListOrder, LAMBDA e : Parent(e) = d /\ Exists(f, e))

RECURSIVE SumSizes(_, _)
SumSizes(f, S) ==
    IF S = {} THEN 0
    ELSE LET e == CHOOSE x \in S : TRUE
         IN f[e].size + SumSizes(f, S \ {e})

\* The total of the byte lengths of the regular files beneath d.
TrueTotal(f, d) == SumSizes(f, {e \in Beneath(d) : f[e].kind = "file"})

----------------------------------------------------------------------------
(* The program *)

\* size_t lastModified = ...time_since_epoch().count(): the signed tick
\* count converted to size_t.
SizeTMod == 2 * (MaxTick + 1)

ToSizeT(t) == t % SizeTMod

\* The signed tick count whose conversion to size_t is u.
Signed(u) == IF u > MaxTick THEN u - SizeTMod ELSE u

NoThread == "free"

NoPath == "-"

\* A call's lastModified before fs::last_write_time has returned.
NoTime == -1

NoResult == [status |-> "none", value |-> 0]

IOError == [status |-> "IOError", value |-> 0]

Returned(n) == [status |-> "ok", value |-> n]

\* The comparison the wrong way round: the entry is used when it is older.
CacheHitInverted(c, d, lm) ==
    /\ d \in DOMAIN c
    /\ lm > c[d].lastModified

\* The comparison with the tie counted as stale.
CacheHitStrict(c, d, lm) ==
    /\ d \in DOMAIN c
    /\ lm < c[d].lastModified

\* The comparison for equality: the entry is used only when the timestamp
\* is the one it was written with.
CacheHitSame(c, d, lm) ==
    /\ d \in DOMAIN c
    /\ lm = c[d].lastModified

\* if (it != cache.end()) if (lastModified <= it->second.lastModified)
CacheHit(c, d, lm) ==
    /\ d \in DOMAIN c
    /\ lm <= c[d].lastModified

\* The store with lastModified left at zero.
CacheStoreNoTime(c, d, du, lm) ==
    [x \in DOMAIN c \cup {d} |->
        IF x = d THEN [diskSpaceUsage |-> du, lastModified |-> 0] ELSE c[x]]

\* The store with the two members of DirectoryInfo in the wrong order.
CacheStoreSwapped(c, d, du, lm) ==
    [x \in DOMAIN c \cup {d} |->
        IF x = d THEN [diskSpaceUsage |-> lm, lastModified |-> du] ELSE c[x]]

\* The store drops the entries of the other paths, as if the directories
\* above and beneath had to be computed again.
CacheStoreAlone(c, d, du, lm) ==
    [x \in {d} |-> [diskSpaceUsage |-> du, lastModified |-> lm]]

\* cache[directory] = DirectoryInfo{diskSpaceUsage, lastModified};
CacheStore(c, d, du, lm) ==
    [x \in DOMAIN c \cup {d} |->
        IF x = d THEN [diskSpaceUsage |-> du, lastModified |-> lm] ELSE c[x]]

\* getDiskSpaceUsage(d) run alone on the table c: what it returns or throws
\* and the table it leaves, given what the filesystem showed it: the
\* timestamp lm (NoTime: last_write_time threw) and, when it walked, whether
\* the walk ended (walked) and its total.
Outcome(c, d, lm, walked, total) ==
    IF lm = NoTime THEN [out |-> IOError, cache |-> c]
    ELSE IF CacheHit(c, d, lm)
    THEN [out |-> Returned(c[d].diskSpaceUsage), cache |-> c]
    ELSE IF ~walked THEN [out |-> IOError, cache |-> c]
    ELSE [out |-> Returned(total), cache |-> CacheStore(c, d, total, lm)]

\* No entry for d, or one older than d's timestamp as line 45 compares them.
AbsentOrStale(c, f, d) ==
    \/ d \notin DOMAIN c
    \/ Exists(f, d) /\ c[d].lastModified < ToSizeT(f[d].mtime)

----------------------------------------------------------------------------
(* The observer: what each step adds to the record *)

\* The step in which t's fs::last_write_time returns.
ReadStep(t) == pc[t] = "stat" /\ lastModified'[t] # NoTime

\* The step in which t's call ends.
ReturnStep(t) == pc[t] = "done" /\ pc'[t] = "idle"

\* The step in which the outcome of t's call is fixed.
OutcomeStep(t) == pc[t] # "done" /\ pc'[t] = "done"

\* A file beneath d is added, removed or resized.
FileChange(d) ==
    \E e \in Beneath(d) \cap Files :
        fs'[e].kind # fs[e].kind \/ fs'[e].size # fs[e].size

\* A file beneath d is resized, or a file in a directory beneath d is added
\* or removed.
NestedFileChange(d) ==
    \E e \in Beneath(d) \cap Files :
        \/ fs'[e].kind = fs[e].kind /\ fs'[e].size # fs[e].size
        \/ Parent(e) # d /\ fs'[e].kind # fs[e].kind

NoFirst == [seen |-> FALSE, value |-> 0, clean |-> FALSE, by |-> NoThread]

\* The step in which t calls getDiskSpaceUsage.
CallStep(t) == pc[t] = "idle" /\ pc'[t] = "lock"

NoGroup == [on |-> FALSE, d |-> NoPath, table |-> <<>>, returned |-> {},
            overlap |-> FALSE]

\* The step in which t enters calculateDiskSpace.
RecomputeStep(t) == pc[t] = "stat" /\ pc'[t] = "calc"

NoRound == [on |-> FALSE, d |-> NoPath, ended |-> 0, recomputes |-> 0,
            value |-> 0, firstOk |-> FALSE, overlap |-> FALSE]

UpTo2(n) == IF n < 2 THEN n + 1 ELSE 2

Observe ==
    /\ watch' = watch
    /\ snap' = IF watch \in {"walk", "nested"}
               THEN [t \in Threads |->
                       IF ReturnStep(t) THEN 0
                       ELSE IF ReadStep(t) THEN TrueTotal(fs, directory[t])
                       ELSE snap[t]]
               ELSE snap
    /\ dirty' = IF watch \in {"walk", "quiet", "advance"}
                THEN [t \in Threads |->
                        IF ReturnStep(t) \/ ReadStep(t) THEN FALSE
                        ELSE IF watch # "advance" /\ pc[t] = "done" THEN dirty[t]
                        ELSE IF lastModified[t] # NoTime /\ fs' # fs THEN TRUE
                        ELSE dirty[t]]
                ELSE dirty
    /\ first' = IF watch = "quiet"
                THEN [d \in Dirs |->
                        IF fs' # fs THEN NoFirst
                        ELSE IF /\ ~first[d].seen
                                /\ \E t \in Threads :
                                      /\ OutcomeStep(t)
                                      /\ directory[t] = d
                                      /\ out'[t].status = "ok"
                        THEN LET t == CHOOSE u \in Threads :
                                          OutcomeStep(u) /\ directory[u] = d
                             IN [seen |-> TRUE, value |-> out'[t].value,
                                 clean |-> ~dirty[t], by |-> t]
                        ELSE IF \E t \in Threads : ReturnStep(t) /\ first[d].by = t
                        THEN [first[d] EXCEPT !.by = NoThread]
                        ELSE first[d]]
                ELSE first
    /\ phase' = IF watch = "advance"
                THEN [d \in Dirs |->
                        IF fs' # fs
                        THEN IF /\ phase[d] \in {1, 2}
                                /\ Exists(fs', d)
                                /\ FileChange(d)
                                /\ fs'[d].mtime > fs[d].mtime
                             THEN 2 ELSE 0
                        ELSE IF \E t \in Threads :
                                   /\ ReturnStep(t)
                                   /\ directory[t] = d
                                   /\ out[t].status = "ok"
                        THEN 1
                        ELSE phase[d]]
                ELSE phase
    /\ nested' = IF watch = "nested"
                 THEN [d \in Dirs |->
                         IF \/ fs'[d] # fs[d]
                            \/ d \in DOMAIN cache /\ cache'[d] # cache[d]
                            \/ \E t \in Threads : ReadStep(t) /\ directory[t] = d
                         THEN FALSE
                         ELSE IF d \in DOMAIN cache /\ NestedFileChange(d) THEN TRUE
                         ELSE nested[d]]
                 ELSE nested
    /\ saw' = IF watch = "nested"
              THEN [t \in Threads |->
                      IF ReturnStep(t) THEN FALSE
                      ELSE IF ReadStep(t) THEN nested[directory[t]]
                      ELSE saw[t]]
              ELSE saw
    /\ group' =
          IF watch # "reads" THEN group
          ELSE IF \E t \in Threads : CallStep(t)
          THEN LET t == CHOOSE u \in Threads : CallStep(u)
                   d == directory'[t]
               IN IF \A u \in Threads : pc[u] = "idle"
                  THEN IF d \in DOMAIN cache
                       THEN [on |-> TRUE, d |-> d, table |-> cache,
                             returned |-> {}, overlap |-> FALSE]
                       ELSE NoGroup
                  ELSE IF group.on /\ d = group.d
                  THEN [group EXCEPT !.overlap = TRUE]
                  ELSE NoGroup
          ELSE IF ~group.on THEN group
          ELSE IF \E t \in Threads :
                     /\ pc[t] = "stat"
                     /\ pc'[t] # "stat"
                     /\ ~(/\ lastModified'[t] # NoTime
                          /\ CacheHit(group.table, group.d, lastModified'[t]))
          THEN NoGroup
          ELSE [group EXCEPT !.returned =
                    @ \cup {t \in Threads : ReturnStep(t)}]
    /\ round' =
          IF watch # "once" THEN round
          ELSE IF \E t \in Threads : CallStep(t)
          THEN LET t == CHOOSE u \in Threads : CallStep(u)
                   d == directory'[t]
               IN IF \A u \in Threads : pc[u] = "idle"
                  THEN IF AbsentOrStale(cache, fs, d)
                       THEN [NoRound EXCEPT !.on = TRUE, !.d = d]
                       ELSE NoRound
                  ELSE IF round.on /\ d = round.d
                  THEN [round EXCEPT !.overlap = TRUE]
                  ELSE NoRound
          ELSE IF ~round.on THEN round
          ELSE IF fs' # fs THEN NoRound
          ELSE IF \E t \in Threads : RecomputeStep(t)
          THEN [round EXCEPT !.recomputes = UpTo2(@)]
          ELSE IF \E t \in Threads : ReturnStep(t)
          THEN LET t == CHOOSE u \in Threads : ReturnStep(u)
               IN IF round.ended = 0
                  THEN [round EXCEPT !.ended = 1,
                                     !.value = out[t].value,
                                     !.firstOk = (out[t].status = "ok")]
                  ELSE [round EXCEPT !.ended = 2]
          ELSE round
    /\ sampled' =
          IF watch # "sample" THEN sampled
          ELSE [d \in Dirs |->
                  IF \E t \in Threads : ReadStep(t) /\ directory[t] = d
                  THEN IF \E t \in Threads : RecomputeStep(t) THEN "read"
                       ELSE "no"
                  ELSE IF \E t \in Threads :
                             /\ OutcomeStep(t)
                             /\ directory[t] = d
                             /\ out'[t] = IOError
                  THEN "no"
                  ELSE IF ~Exists(fs', d) \/ fs'[d].mtime < fs[d].mtime
                  THEN "no"
                  ELSE IF sampled[d] # "no" /\ fs'[d].mtime > fs[d].mtime
                  THEN "advanced"
                  ELSE sampled[d]]
    /\ serial' =
          IF watch = "order" /\ \E t \in Threads : ReturnStep(t)
          THEN LET t == CHOOSE u \in Threads : ReturnStep(u)
               IN Outcome(serial, directory[t], lastModified[t],
                          out[t].status = "ok", totalSpaceUsed[t]).cache
          ELSE serial

\* The tree with a, b and g for A, A/B and A/B/g and x for the rest.
Tree(a, b, g, x) ==
    [e \in Entries |->
        CASE e = "A" -> a
          [] e = "A/B" -> b
          [] e = "A/B/g" -> IF b.kind = "dir" THEN g ELSE Absent
          [] OTHER -> x[e]]

\* The trees the environment changes: A, with or without A/B and A/B/g.
InitFs ==
    {Tree(Directory(ma), b, g, [e \in Entries |-> Absent]) :
        ma \in Ticks,
        b \in {Absent} \cup {Directory(m) : m \in Ticks},
        g \in {Absent} \cup {RegularFile(s) : s \in 0..MaxSize}}

\* The trees that nothing changes while they are walked: regular files of
\* several lengths, an empty one among them, in A and in A/B, and in A a
\* symbolic link (to a regular file, to a directory, to nothing) or a device.
StillFs ==
    {Tree(Directory(0), b, g,
          [e \in Entries |->
              CASE e = "A/f" -> f [] e = "A/h" -> h [] e = "A/k" -> k
                [] e = "A/s" -> l [] OTHER -> Absent]) :
        b \in {Absent, Directory(0)},
        g \in {Absent, RegularFile(MaxSize), RegularFile(50)},
        f \in {Absent, RegularFile(MaxSize), RegularFile(100)},
        h \in {Absent, RegularFile(250)},
        k \in {Absent, RegularFile(0)},
        l \in {Absent, Other, Symlink("A/f"), Symlink("A/B"),
                Symlink("A/B/g"), Symlink(Nowhere)}}

\* The program before the first call, with the observer keeping record w.
Begin(w) ==
    /\ cache = <<>>
    /\ cacheMutex = NoThread
    /\ pc = [t \in Threads |-> "idle"]
    /\ directory = [t \in Threads |-> NoPath]
    /\ lastModified = [t \in Threads |-> NoTime]
    /\ totalSpaceUsed = [t \in Threads |-> 0]
    /\ iter = [t \in Threads |-> <<>>]
    /\ out = [t \in Threads |-> NoResult]
    /\ before = [t \in Threads |-> <<>>]
    /\ walks = [t \in Threads |-> 0]
    /\ watch = w
    /\ snap = [t \in Threads |-> 0]
    /\ dirty = [t \in Threads |-> FALSE]
    /\ first = [d \in Dirs |-> NoFirst]
    /\ phase = [d \in Dirs |-> 0]
    /\ nested = [d \in Dirs |-> FALSE]
    /\ saw = [t \in Threads |-> FALSE]
    /\ group = NoGroup
    /\ serial = <<>>
    /\ round = NoRound
    /\ sampled = [d \in Dirs |-> "no"]

Start(w) ==
    /\ fs \in InitFs
    /\ Begin(w)

Init == Start("off")

\* A thread calls getDiskSpaceUsage(d) and reaches the lock_guard.
Call(t, d) ==
    /\ pc[t] = "idle"
    /\ pc' = [pc EXCEPT ![t] = "lock"]
    /\ directory' = [directory EXCEPT ![t] = d]
    /\ UNCHANGED <<fs, cache, cacheMutex, lastModified, totalSpaceUsed, iter, out>>
    /\ UNCHANGED <<before, walks>>
    /\ Observe

\* The call goes on without waiting for the mutex to be free.
AcquireNoWait(t) ==
    /\ pc[t] = "lock"
    /\ cacheMutex' = t
    /\ pc' = [pc EXCEPT ![t] = "stat"]
    /\ before' = [before EXCEPT ![t] = cache]
    /\ UNCHANGED <<fs, cache, directory, lastModified, totalSpaceUsed, iter, out>>
    /\ UNCHANGED walks
    /\ Observe

\* std::lock_guard<std::mutex> lock(cacheMutex);
Acquire(t) ==
    /\ pc[t] = "lock"
    /\ cacheMutex = NoThread
    /\ cacheMutex' = t
    /\ pc' = [pc EXCEPT ![t] = "stat"]
    /\ before' = [before EXCEPT ![t] = cache]
    /\ UNCHANGED <<fs, cache, directory, lastModified, totalSpaceUsed, iter, out>>
    /\ UNCHANGED walks
    /\ Observe

\* A return statement or a throw fixes the outcome of the call; the mutex is
\* still held.
Leave(t, result) ==
    /\ pc' = [pc EXCEPT ![t] = "done"]
    /\ out' = [out EXCEPT ![t] = result]
    /\ UNCHANGED <<cacheMutex, before, walks>>

\* The lock_guard's destructor releases the mutex, the locals go away and
\* the outcome reaches the caller.
Return(t) ==
    /\ pc[t] = "done"
    /\ cacheMutex' = NoThread
    /\ pc' = [pc EXCEPT ![t] = "idle"]
    /\ out' = [out EXCEPT ![t] = NoResult]
    /\ directory' = [directory EXCEPT ![t] = NoPath]
    /\ lastModified' = [lastModified EXCEPT ![t] = NoTime]
    /\ totalSpaceUsed' = [totalSpaceUsed EXCEPT ![t] = 0]
    /\ iter' = [iter EXCEPT ![t] = <<>>]
    /\ before' = [before EXCEPT ![t] = <<>>]
    /\ walks' = [walks EXCEPT ![t] = 0]
    /\ UNCHANGED <<fs, cache>>
    /\ Observe

\* The failed timestamp read falls back to the entry the cache holds.
StatFailsFallback(t) ==
    /\ pc[t] = "stat"
    /\ ~Exists(fs, directory[t])
    /\ Leave(t, IF directory[t] \in DOMAIN cache
                THEN Returned(cache[directory[t]].diskSpaceUsage)
                ELSE IOError)
    /\ UNCHANGED <<fs, cache, directory, lastModified, totalSpaceUsed, iter>>
    /\ Observe

\* fs::last_write_time(directory) throws: the path is missing.
StatFails(t) ==
    /\ pc[t] = "stat"
    /\ ~Exists(fs, directory[t])
    /\ Leave(t, IOError)
    /\ UNCHANGED <<fs, cache, directory, lastModified, totalSpaceUsed, iter>>
    /\ Observe

\* The cached size is returned and the entry is given the timestamp read.
ReturnCachedRefreshing(t) ==
    /\ pc[t] = "stat"
    /\ Exists(fs, directory[t])
    /\ CacheHit(cache, directory[t], ToSizeT(fs[directory[t]].mtime))
    /\ lastModified' = [lastModified EXCEPT ![t] = ToSizeT(fs[directory[t]].mtime)]
    /\ cache' = [cache EXCEPT ![directory[t]].lastModified =
                                 ToSizeT(fs[directory[t]].mtime)]
    /\ Leave(t, Returned(cache[directory[t]].diskSpaceUsage))
    /\ UNCHANGED <<fs, directory, totalSpaceUsed, iter>>
    /\ Observe

\* The timestamp is read, the entry is found and is not older: the cached
\* size is returned.
ReturnCached(t) ==
    /\ pc[t] = "stat"
    /\ Exists(fs, directory[t])
    /\ CacheHit(cache, directory[t], ToSizeT(fs[directory[t]].mtime))
    /\ lastModified' = [lastModified EXCEPT ![t] = ToSizeT(fs[directory[t]].mtime)]
    /\ Leave(t, Returned(cache[directory[t]].diskSpaceUsage))
    /\ UNCHANGED <<fs, cache, directory, totalSpaceUsed, iter>>
    /\ Observe

\* The lock_guard's scope ends with the lookup: the walk and the write are
\* made with the mutex free.
RecomputeUnlocked(t) ==
    /\ pc[t] = "stat"
    /\ Exists(fs, directory[t])
    /\ ~CacheHit(cache, directory[t], ToSizeT(fs[directory[t]].mtime))
    /\ lastModified' = [lastModified EXCEPT ![t] = ToSizeT(fs[directory[t]].mtime)]
    /\ pc' = [pc EXCEPT ![t] = "calc"]
    /\ walks' = [walks EXCEPT ![t] = @ + 1]
    /\ cacheMutex' = NoThread
    /\ UNCHANGED <<fs, cache, directory, totalSpaceUsed, iter, out>>
    /\ UNCHANGED before
    /\ Observe

\* The timestamp is read and there is no entry, or an older one: the call
\* enters calculateDiskSpace(directory).
Recompute(t) ==
    /\ pc[t] = "stat"
    /\ Exists(fs, directory[t])
    /\ ~CacheHit(cache, directory[t], ToSizeT(fs[directory[t]].mtime))
    /\ lastModified' = [lastModified EXCEPT ![t] = ToSizeT(fs[directory[t]].mtime)]
    /\ pc' = [pc EXCEPT ![t] = "calc"]
    /\ walks' = [walks EXCEPT ![t] = @ + 1]
    /\ UNCHANGED <<fs, cache, cacheMutex, directory, totalSpaceUsed, iter, out>>
    /\ UNCHANGED before
    /\ Observe

\* calculateDiskSpace: fs::recursive_directory_iterator(directory) opens the
\* directory, or throws when it is gone.
WalkOpen(t) ==
    /\ pc[t] = "calc"
    /\ Exists(fs, directory[t])
    /\ iter' = [iter EXCEPT ![t] = Children(fs, directory[t])]
    /\ totalSpaceUsed' = [totalSpaceUsed EXCEPT ![t] = 0]
    /\ pc' = [pc EXCEPT ![t] = "iter"]
    /\ UNCHANGED <<fs, cache, cacheMutex, directory, lastModified, out>>
    /\ UNCHANGED <<before, walks>>
    /\ Observe

WalkOpenFails(t) ==
    /\ pc[t] = "calc"
    /\ ~Exists(fs, directory[t])
    /\ Leave(t, IOError)
    /\ UNCHANGED <<fs, cache, directory, lastModified, totalSpaceUsed, iter>>
    /\ Observe

\* The loop over a directory_iterator, which does not descend.
WalkStepFlat(t) ==
    /\ pc[t] = "iter"
    /\ iter[t] # <<>>
    /\ LET e == Head(iter[t]) IN
        /\ Exists(fs, e)
        /\ totalSpaceUsed' =
              [totalSpaceUsed EXCEPT ![t] =
                  @ + (IF IsRegularFile(fs, e) THEN FileSize(fs, e) ELSE 0)]
        /\ iter' = [iter EXCEPT ![t] = Tail(@)]
    /\ UNCHANGED <<fs, cache, cacheMutex, pc, directory, lastModified, out>>
    /\ UNCHANGED <<before, walks>>
    /\ Observe

\* One turn of the loop and the iterator's increment: what is_regular_file
\* takes for a regular file adds fs::file_size to the total, a directory is
\* descended into (a symbolic link to one is not), anything else is passed.
WalkStep(t) ==
    /\ pc[t] = "iter"
    /\ iter[t] # <<>>
    /\ LET e == Head(iter[t]) IN
        /\ Exists(fs, e)
        /\ IF IsRegularFile(fs, e)
           THEN /\ totalSpaceUsed' =
                      [totalSpaceUsed EXCEPT ![t] = @ + FileSize(fs, e)]
                /\ iter' = [iter EXCEPT ![t] = Tail(@)]
           ELSE /\ totalSpaceUsed' = totalSpaceUsed
                /\ iter' = [iter EXCEPT ![t] =
                               IF fs[e].kind = "dir"
                               THEN Children(fs, e) \o Tail(@)
                               ELSE Tail(@)]
    /\ UNCHANGED <<fs, cache, cacheMutex, pc, directory, lastModified, out>>
    /\ UNCHANGED <<before, walks>>
    /\ Observe

\* The failing walk leaves the total it reached in the cache.
WalkStepFailsStoring(t) ==
    /\ pc[t] = "iter"
    /\ iter[t] # <<>>
    /\ ~Exists(fs, Head(iter[t]))
    /\ cache' = CacheStore(cache, directory[t], totalSpaceUsed[t], lastModified[t])
    /\ Leave(t, IOError)
    /\ UNCHANGED <<fs, directory, lastModified, totalSpaceUsed, iter>>
    /\ Observe

\* The mutex is locked and unlocked by hand and the throw skips the unlock:
\* the call ends with the mutex held.
WalkStepFailsHolding(t) ==
    /\ pc[t] = "iter"
    /\ iter[t] # <<>>
    /\ ~Exists(fs, Head(iter[t]))
    /\ pc' = [pc EXCEPT ![t] = "idle"]
    /\ directory' = [directory EXCEPT ![t] = NoPath]
    /\ lastModified' = [lastModified EXCEPT ![t] = NoTime]
    /\ totalSpaceUsed' = [totalSpaceUsed EXCEPT ![t] = 0]
    /\ iter' = [iter EXCEPT ![t] = <<>>]
    /\ before' = [before EXCEPT ![t] = <<>>]
    /\ walks' = [walks EXCEPT ![t] = 0]
    /\ UNCHANGED <<fs, cache, cacheMutex, out>>
    /\ Observe

\* fs::file_size, or the descent into a directory, throws: the entry the
\* stream yielded is gone.
WalkStepFails(t) ==
    /\ pc[t] = "iter"
    /\ iter[t] # <<>>
    /\ ~Exists(fs, Head(iter[t]))
    /\ Leave(t, IOError)
    /\ UNCHANGED <<fs, cache, directory, lastModified, totalSpaceUsed, iter>>
    /\ Observe

\* The entry is written with the timestamp of the entry it replaces.
StoreAndReturnOldTime(t) ==
    /\ pc[t] = "iter"
    /\ iter[t] = <<>>
    /\ cache' = CacheStore(cache, directory[t], totalSpaceUsed[t],
                           IF directory[t] \in DOMAIN cache
                           THEN cache[directory[t]].lastModified
                           ELSE lastModified[t])
    /\ Leave(t, Returned(totalSpaceUsed[t]))
    /\ UNCHANGED <<fs, directory, lastModified, totalSpaceUsed, iter>>
    /\ Observe

\* The size is returned and the entry is not written.
StoreAndReturnNoWrite(t) ==
    /\ pc[t] = "iter"
    /\ iter[t] = <<>>
    /\ Leave(t, Returned(totalSpaceUsed[t]))
    /\ UNCHANGED <<fs, cache, directory, lastModified, totalSpaceUsed, iter>>
    /\ Observe

\* The walk is over: the entry is written and the size returned.
StoreAndReturn(t) ==
    /\ pc[t] = "iter"
    /\ iter[t] = <<>>
    /\ cache' = CacheStore(cache, directory[t], totalSpaceUsed[t], lastModified[t])
    /\ Leave(t, Returned(totalSpaceUsed[t]))
    /\ UNCHANGED <<fs, directory, lastModified, totalSpaceUsed, iter>>
    /\ Observe

----------------------------------------------------------------------------
(* The environment: other processes change the filesystem *)

Untouched == UNCHANGED <<cache, cacheMutex, pc, directory, lastModified,
                         totalSpaceUsed, iter, out, before, walks>>

\* A file is created or deleted: its directory's last-write time moves to
\* the clock's reading, which is later or, the clock being coarse, the same.
CreateFile(e, s, m) ==
    /\ e \in Files
    /\ Exists(fs, Parent(e))
    /\ ~Exists(fs, e)
    /\ m >= fs[Parent(e)].mtime
    /\ fs' = [fs EXCEPT ![e] = RegularFile(s), ![Parent(e)].mtime = m]
    /\ Untouched
    /\ Observe

DeleteFile(e, m) ==
    /\ e \in Files
    /\ Exists(fs, e)
    /\ m >= fs[Parent(e)].mtime
    /\ fs' = [fs EXCEPT ![e] = Absent, ![Parent(e)].mtime = m]
    /\ Untouched
    /\ Observe

\* A file is written to: its length changes, its directory's time does not.
ResizeFile(e, s) ==
    /\ e \in Files
    /\ Exists(fs, e)
    /\ s # fs[e].size
    /\ fs' = [fs EXCEPT ![e].size = s]
    /\ Untouched
    /\ Observe

\* The directory A/B is created, or removed with what it holds.
CreateDir(mb, m) ==
    /\ ~Exists(fs, "A/B")
    /\ m >= fs["A"].mtime
    /\ fs' = [fs EXCEPT !["A/B"] = Directory(mb), !["A"].mtime = m]
    /\ Untouched
    /\ Observe

RemoveDir(m) ==
    /\ Exists(fs, "A/B")
    /\ m >= fs["A"].mtime
    /\ fs' = [fs EXCEPT !["A/B"] = Absent, !["A/B/g"] = Absent, !["A"].mtime = m]
    /\ Untouched
    /\ Observe

\* utimes: a directory's last-write time is set to any value, earlier ones
\* included.
Touch(d, m) ==
    /\ d \in Dirs
    /\ Exists(fs, d)
    /\ m # fs[d].mtime
    /\ fs' = [fs EXCEPT ![d].mtime = m]
    /\ Untouched
    /\ Observe

getDiskSpaceUsage(t) ==
    \/ Acquire(t)
    \/ StatFails(t)
    \/ ReturnCached(t)
    \/ Recompute(t)
    \/ WalkOpen(t)
    \/ WalkOpenFails(t)
    \/ WalkStep(t)
    \/ WalkStepFails(t)
    \/ StoreAndReturn(t)
    \/ Return(t)

Environment ==
    \/ \E e \in Files, s \in 0..MaxSize, m \in Ticks : CreateFile(e, s, m)
    \/ \E e \in Files, m \in Ticks : DeleteFile(e, m)
    \/ \E e \in Files, s \in 0..MaxSize : ResizeFile(e, s)
    \/ \E mb \in Ticks, m \in Ticks : CreateDir(mb, m)
    \/ \E m \in Ticks : RemoveDir(m)
    \/ \E d \in Dirs, m \in Ticks : Touch(d, m)

Next ==
    \/ \E t \in Threads, d \in Dirs : Call(t, d)
    \/ \E t \in Threads : getDiskSpaceUsage(t)
    \/ Environment

Spec == Init /\ [][Next]_vars

\* The steps of a call that holds the mutex: each is a filesystem primitive
\* that returns or throws, a comparison, a write or the return.
Turn(t) ==
    \/ StatFails(t)
    \/ ReturnCached(t)
    \/ Recompute(t)
    \/ WalkOpen(t)
    \/ WalkOpenFails(t)
    \/ WalkStep(t)
    \/ WalkStepFails(t)
    \/ StoreAndReturn(t)
    \/ Return(t)

\* The threads contend for the mutex with calls on the one directory A/B,
\* on which every way out of getDiskSpaceUsage is taken.
NextContended ==
    \/ \E t \in Threads : Call(t, "A/B")
    \/ \E t \in Threads : getDiskSpaceUsage(t)
    \/ Environment

\* The same with a scheduler that lets every call in its turn go on, and a
\* mutex that does not pass over a waiting thread for ever.
FairSpec ==
    /\ Init
    /\ [][NextContended]_vars
    /\ \A t \in Threads : WF_vars(Turn(t)) /\ SF_vars(Acquire(t))

\* One thread calls getDiskSpaceUsage again and again, as main does.
NextSequential ==
    \/ \E d \in Dirs : Call("t1", d)
    \/ getDiskSpaceUsage("t1")
    \/ Environment

Sequential == Init /\ [][NextSequential]_vars

\* One thread calls getDiskSpaceUsage on a tree that nothing changes, so
\* that nothing fails but the timestamp read of a directory that is not
\* there.
NextStill ==
    \/ \E d \in Dirs : Call("t1", d)
    \/ Acquire("t1")
    \/ StatFails("t1")
    \/ ReturnCached("t1")
    \/ Recompute("t1")
    \/ WalkOpen("t1")
    \/ WalkStep("t1")
    \/ StoreAndReturn("t1")
    \/ Return("t1")

InitStill ==
    /\ fs \in StillFs
    /\ Begin("off")

StillTree == InitStill /\ [][NextStill]_vars

\* The same, with the observer keeping one of its records.
WalkHistory == Start("walk") /\ [][NextSequential]_vars

QuietHistory == Start("quiet") /\ [][NextSequential]_vars

AdvanceHistory == Start("advance") /\ [][NextSequential]_vars

NestedHistory == Start("nested") /\ [][NextSequential]_vars

SampleHistory == Start("sample") /\ [][NextSequential]_vars

\* The threads of Spec, with the observer keeping the record of the calls
\* made on one directory.
ReadsHistory == Start("reads") /\ [][Next]_vars

\* The same threads, with the observer running the calls one after another.
OrderHistory == Start("order") /\ [][Next]_vars

\* The same threads, with the observer counting the walks of the calls made
\* on one directory.
OnceHistory == Start("once") /\ [][Next]_vars

----------------------------------------------------------------------------
(* The claims *)

\* The threads inside getDiskSpaceUsage, between the lock_guard and its end.
Inside == {"stat", "calc", "iter", "done"}

\* The entry of the directory of t's call, as the call found it.
Found(t) == before[t][directory[t]]

HadEntry(t) == directory[t] \in DOMAIN before[t]

\* C1 (fast path): a call that finds an entry whose lastModified is greater
\* than or equal to the timestamp it read returns exactly that entry's
\* diskSpaceUsage, never enters calculateDiskSpace and leaves the entry as
\* it was; equal timestamps count as not stale.
C1_FastPath ==
    \A t \in Threads :
        (/\ pc[t] = "done"
         /\ lastModified[t] # NoTime
         /\ HadEntry(t)
         /\ Found(t).lastModified >= lastModified[t])
        => /\ out[t] = Returned(Found(t).diskSpaceUsage)
           /\ walks[t] = 0
           /\ directory[t] \in DOMAIN cache
           /\ cache[directory[t]] = Found(t)

\* A call has returned the cached size on a tie of the two timestamps.
C1_Witness ==
    \E t \in Threads :
        /\ pc[t] = "done"
        /\ HadEntry(t)
        /\ Found(t).lastModified = lastModified[t]
        /\ walks[t] = 0
        /\ out[t] = Returned(Found(t).diskSpaceUsage)

\* C2 (stale path): a call that finds an entry whose lastModified is
\* strictly less than the timestamp it read, and whose walk succeeds, walks
\* exactly once, overwrites the entry with the walk's result and the
\* timestamp it read, and returns the walk's result.
C2_StalePath ==
    \A t \in Threads :
        (/\ pc[t] = "done"
         /\ lastModified[t] # NoTime
         /\ HadEntry(t)
         /\ Found(t).lastModified < lastModified[t]
         /\ out[t].status = "ok")
        => /\ walks[t] = 1
           /\ out[t] = Returned(totalSpaceUsed[t])
           /\ directory[t] \in DOMAIN cache
           /\ cache[directory[t]] = [diskSpaceUsage |-> totalSpaceUsed[t],
                                     lastModified |-> lastModified[t]]

\* A call has replaced an older entry by a different size and a later time.
C2_Witness ==
    \E t \in Threads :
        /\ pc[t] = "done"
        /\ HadEntry(t)
        /\ Found(t).lastModified < lastModified[t]
        /\ out[t].status = "ok"
        /\ walks[t] = 1
        /\ cache[directory[t]].diskSpaceUsage # Found(t).diskSpaceUsage
        /\ cache[directory[t]].lastModified = lastModified[t]

\* C3 (miss path): a call that finds no entry, and whose timestamp read
\* and walk succeed, walks once, inserts the entry made of the walk's result
\* and the timestamp it read, and returns the walk's result.
C3_MissPath ==
    \A t \in Threads :
        (/\ pc[t] = "done"
         /\ ~HadEntry(t)
         /\ out[t].status = "ok")
        => /\ walks[t] = 1
           /\ lastModified[t] # NoTime
           /\ out[t] = Returned(totalSpaceUsed[t])
           /\ directory[t] \in DOMAIN cache
           /\ cache[directory[t]] = [diskSpaceUsage |-> totalSpaceUsed[t],
                                     lastModified |-> lastModified[t]]

\* A call has inserted an entry with a size that is not its timestamp.
C3_Witness ==
    \E t \in Threads :
        /\ pc[t] = "done"
        /\ ~HadEntry(t)
        /\ out[t].status = "ok"
        /\ walks[t] = 1
        /\ directory[t] \in DOMAIN cache
        /\ cache[directory[t]].diskSpaceUsage # cache[directory[t]].lastModified

\* C4 (failed recompute): when calculateDiskSpace throws, the cache after
\* the call is the cache before it: an entry of the directory keeps its two
\* members, and no entry is made where there was none.
C4_FailedRecompute ==
    \A t \in Threads :
        (/\ pc[t] = "done"
         /\ walks[t] > 0
         /\ out[t] = IOError)
        => cache = before[t]

\* A walk has failed, once with a stale entry in the cache.
C4_Witness ==
    \E t \in Threads :
        /\ pc[t] = "done"
        /\ walks[t] = 1
        /\ out[t] = IOError
        /\ HadEntry(t)
        /\ cache[directory[t]] = Found(t)

\* C5 (mutual exclusion): at most one thread is between taking the lock and
\* the end of its call, and that thread holds cacheMutex through the
\* timestamp read, the lookup, the walk and the write.
C5_MutualExclusion ==
    /\ \A t, u \in Threads : (pc[t] \in Inside /\ pc[u] \in Inside) => t = u
    /\ \A t \in Threads : pc[t] \in Inside <=> cacheMutex = t

\* One thread is in its walk while another, called on another directory,
\* waits for the lock.
C5_Witness ==
    \E t, u \in Threads :
        /\ pc[t] = "iter"
        /\ pc[u] = "lock"
        /\ directory[t] # directory[u]

\* C6 (timestamp read failure): a call whose fs::last_write_time throws
\* ends with an IOError and no size, also when the cache holds an entry of
\* the directory, and leaves the cache as it was.
C6_StatFailure ==
    \A t \in Threads :
        (/\ pc[t] = "done"
         /\ lastModified[t] = NoTime)
        => /\ out[t] = IOError
           /\ walks[t] = 0
           /\ cache = before[t]

\* The timestamp read has failed on a directory the cache holds an entry of.
C6_Witness ==
    \E t \in Threads :
        /\ pc[t] = "done"
        /\ lastModified[t] = NoTime
        /\ out[t] = IOError
        /\ directory[t] \in DOMAIN cache
        /\ ~Exists(fs, directory[t])

C8_Idempotent ==
    \A t \in Threads :
        (/\ pc[t] = "done"
         /\ first[directory[t]].seen
         /\ first[directory[t]].by # t)
        => /\ out[t] = Returned(first[directory[t]].value)
           /\ walks[t] = 0

\* C8 as amended: the same when the filesystem has not been modified since
\* the first call read the directory's timestamp.
C8_IdempotentSinceRead ==
    \A t \in Threads :
        (/\ pc[t] = "done"
         /\ first[directory[t]].seen
         /\ first[directory[t]].by # t
         /\ first[directory[t]].clean)
        => /\ out[t] = Returned(first[directory[t]].value)
           /\ walks[t] = 0

\* A later call has returned the non-zero value of the first without a walk.
C8_Witness ==
    \E t \in Threads :
        /\ pc[t] = "done"
        /\ first[directory[t]].seen
        /\ first[directory[t]].by # t
        /\ first[directory[t]].clean
        /\ first[directory[t]].value > 0
        /\ out[t] = Returned(first[directory[t]].value)
        /\ walks[t] = 0

\* C9 (freshness): after a successful call on a directory, when what the
\* directory holds is changed with the directory's own timestamp moving
\* forward and nothing else happens, the next successful call on the
\* directory returns the new total beneath it.
C9_FreshAfterAdvance ==
    \A t \in Threads :
        (/\ pc[t] = "done"
         /\ out[t].status = "ok"
         /\ phase[directory[t]] = 2
         /\ ~dirty[t])
        => out[t].value = TrueTotal(fs, directory[t])

C11_ConcurrentCachedReads ==
    group.on =>
        /\ cache = group.table
        /\ \A t \in Threads :
              pc[t] = "done" =>
                  /\ directory[t] = group.d
                  /\ out[t] = Returned(group.table[group.d].diskSpaceUsage)
                  /\ walks[t] = 0

\* Of two calls on the same directory made while the other was in progress,
\* one has returned and the other has the same non-zero cached size to return.
C11_Witness ==
    /\ group.on
    /\ group.overlap
    /\ group.table[group.d].diskSpaceUsage > 0
    /\ \E t, u \in Threads :
          /\ t # u
          /\ u \in group.returned
          /\ pc[u] = "idle"
          /\ pc[t] = "done"
          /\ out[t] = Returned(group.table[group.d].diskSpaceUsage)

\* C12 (lock order): what each call returns or throws, and the cache it
\* leaves, are what the calls give when run one after another in the order
\* in which they took the lock, each on the table the one before it left and
\* with the timestamp and the files the filesystem showed it during its own
\* turn; between turns, and during a turn until its one write, the cache is
\* that table.
C12_LockOrder ==
    /\ cacheMutex = NoThread => cache = serial
    /\ \A t \in Threads :
          /\ pc[t] \in {"stat", "calc", "iter"} => cache = serial
          /\ pc[t] = "done" =>
                LET o == Outcome(serial, directory[t], lastModified[t],
                                 out[t].status = "ok", totalSpaceUsed[t])
                IN /\ out[t] = o.out
                   /\ cache = o.cache

\* A call has replaced the entry left by the calls before it while another
\* thread, called on the same directory, waits for its turn.
C12_Witness ==
    \E t, u \in Threads :
        /\ pc[t] = "done"
        /\ walks[t] = 1
        /\ out[t].status = "ok"
        /\ directory[t] \in DOMAIN serial
        /\ cache # serial
        /\ pc[u] = "lock"
        /\ directory[u] = directory[t]

\* C13 (release and progress): every way out of getDiskSpaceUsage, by a
\* return or by a throw, releases cacheMutex, so that the mutex is free
\* whenever no thread is inside; and with a fair mutex and filesystem
\* primitives that end, every call that has reached the lock_guard ends, by
\* a return or by a throw, whatever calls have failed before it.
C13_ReleaseAndProgress ==
    /\ []((\A t \in Threads : pc[t] \notin Inside) => cacheMutex = NoThread)
    /\ \A t \in Threads : (pc[t] = "lock") ~> (pc[t] = "idle")

\* A thread waits for the mutex that a call whose walk has failed still holds.
C13_Witness ==
    \E t, u \in Threads :
        /\ pc[t] = "lock"
        /\ pc[u] = "done"
        /\ walks[u] = 1
        /\ out[u] = IOError
        /\ cacheMutex = u

\* The tree of the scenario: files of 100, 250 and 0 bytes in A and one of
\* 50 bytes in A/B, and nothing else.
Scenario(f) ==
    /\ f["A/f"] = RegularFile(100)
    /\ f["A/h"] = RegularFile(250)
    /\ f["A/k"] = RegularFile(0)
    /\ f["A/s"] = Absent
    /\ f["A/B"].kind = "dir"
    /\ f["A/B/g"] = RegularFile(50)

\* C14 (calculateDiskSpace): on a tree that nothing changes, the walk of a
\* directory gives the sum of the byte lengths of the regular files beneath
\* it at any depth; directories, symbolic links (those to a regular file
\* too), devices and the like add nothing; a directory that holds nothing
\* gives 0 and the tree of the scenario gives 400.
C14_SumOfRegularFiles ==
    \A t \in Threads :
        (/\ pc[t] = "done"
         /\ walks[t] = 1
         /\ out[t].status = "ok")
        => /\ out[t].value = TrueTotal(fs, directory[t])
           /\ Children(fs, directory[t]) = <<>> => out[t].value = 0
           /\ (Scenario(fs) /\ directory[t] = "A") => out[t].value = 400

\* C15 (flat mapping, entries for life): no step removes an entry from the
\* cache, and a step that adds the entry of a path or changes it is a step of
\* the call that holds the mutex and was made on that very path: the entries
\* of the other paths, the directory above and the one beneath among them,
\* stay as they are whether the call succeeds or fails.
C15_FlatFrame ==
    [][/\ DOMAIN cache \subseteq DOMAIN cache'
       /\ \A q \in DOMAIN cache' :
             (q \notin DOMAIN cache \/ cache'[q] # cache[q])
             => \E t \in Threads : cacheMutex = t /\ directory[t] = q]_vars

\* A call on A/B has replaced the entry of A/B, and the entry of A, the
\* directory above, is as the call found it.
C15_Witness ==
    \E t \in Threads :
        /\ pc[t] = "done"
        /\ walks[t] = 1
        /\ out[t].status = "ok"
        /\ directory[t] = "A/B"
        /\ HadEntry(t)
        /\ cache["A/B"] # Found(t)
        /\ "A" \in DOMAIN before[t]
        /\ cache["A"] = before[t]["A"]

\* No two threads are in calculateDiskSpace, or at the write that follows
\* it, at the same time.
NoWalksOverlap ==
    \A t, u \in Threads :
        (pc[t] \in {"calc", "iter"} /\ pc[u] \in {"calc", "iter"}) => t = u

\* C16 (one walk) as claimed: of the calls made by several threads on one
\* directory whose entry is missing or older than its timestamp, one while
\* another is in progress and the filesystem not being modified meanwhile,
\* the first to take the lock walks, no other does and each of the others
\* returns the size the first stored; walks never overlap.
C16_WalkedOnce ==
    /\ NoWalksOverlap
    /\ (round.on /\ round.overlap) =>
          \A t \in Threads :
              pc[t] = "done" =>
                  /\ round.recomputes = 1
                  /\ IF round.ended = 0
                     THEN /\ walks[t] = 1
                          /\ out[t].status = "ok"
                          /\ round.d \in DOMAIN cache
                          /\ cache[round.d].diskSpaceUsage = out[t].value
                     ELSE /\ walks[t] = 0
                          /\ out[t] = Returned(round.value)

\* C16 as amended: the same when the first of the calls to take the lock
\* succeeds.
C16_WalkedOnceAfterSuccess ==
    /\ NoWalksOverlap
    /\ (round.on /\ round.overlap) =>
          \A t \in Threads :
              pc[t] = "done" =>
                  IF round.ended = 0
                  THEN out[t].status = "ok" =>
                          /\ round.recomputes = 1
                          /\ walks[t] = 1
                          /\ round.d \in DOMAIN cache
                          /\ cache[round.d].diskSpaceUsage = out[t].value
                  ELSE round.firstOk =>
                          /\ round.recomputes = 1
                          /\ walks[t] = 0
                          /\ out[t] = Returned(round.value)

\* Of two calls made on a directory while the other was in progress, the
\* first has walked and returned a non-zero size in place of an older entry,
\* and the second has that size to return without a walk.
C16_Witness ==
    /\ round.on
    /\ round.overlap
    /\ round.ended = 1
    /\ round.firstOk
    /\ round.value > 0
    /\ round.recomputes = 1
    /\ \E t \in Threads :
          /\ pc[t] = "done"
          /\ walks[t] = 0
          /\ HadEntry(t)
          /\ out[t] = Returned(round.value)

\* C17 (comparison after the conversion to size_t): a call that reads the
\* directory's timestamp and finds an entry enters calculateDiskSpace exactly
\* when the timestamp it read is later, as a moment of the file clock, than
\* the one the entry was written with, on whichever sides of the clock's
\* epoch the two are.
C17_RecomputesIffLater ==
    \A t \in Threads :
        (/\ pc[t] = "done"
         /\ lastModified[t] # NoTime
         /\ HadEntry(t))
        => (walks[t] = 1
               <=> Signed(lastModified[t]) > Signed(Found(t).lastModified))

\* C18 (monotone lastModified): in no step, whatever the threads and the
\* filesystem do, a directory's last-write time being set back included,
\* does the lastModified of an entry become less than it was, and a step
\* that changes an entry is the write of the call that holds the mutex, was
\* made on that path, and read a lastModified strictly greater than the
\* entry's, which it leaves in the entry.
C18_MonotoneLastModified ==
    [][\A d \in DOMAIN cache :
          /\ d \in DOMAIN cache'
          /\ cache'[d].lastModified >= cache[d].lastModified
          /\ cache'[d] # cache[d] =>
                \E t \in Threads :
                    /\ cacheMutex = t
                    /\ directory[t] = d
                    /\ lastModified[t] > cache[d].lastModified
                    /\ cache'[d].lastModified = lastModified[t]]_vars

\* A call has found the directory's timestamp less than the entry's, the
\* time having been set back, and has left the entry as it was.
C18_Witness ==
    \E t \in Threads :
        /\ pc[t] = "done"
        /\ HadEntry(t)
        /\ lastModified[t] # NoTime
        /\ lastModified[t] < Found(t).lastModified
        /\ Signed(lastModified[t]) < Signed(Found(t).lastModified)
        /\ cache[directory[t]] = Found(t)

\* C19 (timestamp sampled before the walk): the lastModified a call writes
\* with the size is the one it read before the walk; as long as the
\* directory is not removed nor its timestamp set back, that value is not
\* later than the directory's timestamp at any moment of the walk; and when
\* the directory's timestamp has moved forward after that read, during the
\* walk or after it, the next call on the directory that reads the timestamp
\* enters calculateDiskSpace.
C19_SampledBeforeWalk ==
    [][\A t \in Threads :
          /\ (pc[t] = "iter" /\ pc'[t] = "done" /\ out'[t].status = "ok")
                => cache'[directory[t]].lastModified = lastModified[t]
          /\ (pc[t] \in {"calc", "iter"} /\ sampled[directory[t]] # "no")
                => Signed(lastModified[t]) <= fs[directory[t]].mtime
          /\ (ReadStep(t) /\ sampled[directory[t]] = "advanced")
                => RecomputeStep(t)]_vars

====
